---- MODULE Spec2Model ----
(***************************************************************************)
(* xiaoyue backend: the session / message store, the free-tier wallet gate *)
(* and the request handlers of the Express application.                    *)
(*                                                                         *)
(* The repository holds two builds of the backend that differ in the       *)
(* free-tier limit (and in prompt wording): backend/src/index.ts and a     *)
(* second copy.  The variable `build` says which one is running.           *)
(*                                                                         *)
(* Every `await` of a handler is one atomic step of the model; requests    *)
(* are handled by independent slots whose steps interleave freely.         *)
(***************************************************************************)
EXTENDS Integers, Sequences, FiniteSets, TLC

\* ------------------------------------------------------------------ bounds
\* number of session rows the store may hold in a sequential run
MaxSessions == 2
\* number of message rows the requests of a sequential run may insert
MaxSeqMessages == 2
\* number of complete chat turns a session may have behind it at the start
MaxPrior == 4
\* number of message rows the requests of a gate run may insert
MaxMessages == 2

\* ------------------------------------------------------------- value sets
\* JavaScript null / undefined (a missing optional field)
NULL == "null"

Builds == {"backend", "unnamed"}

\* the requests that can be in flight at the same time: two handlers whose
\* steps interleave
Slots == {1, 2}

\* wallet addresses a client can send; "" is the empty string, which zod's
\* z.string().optional().nullable() accepts
Wallets == {"", "wA", "wB"}

Locales == {"en", "zh"}

\* chat prompts (z.string().min(1)) and token mints
Prompts == {"hi"}

Mints == {"mintA", "bad"}

\* what completion.choices[0]?.message?.content can be
RawReplies == {NULL, "  ", " ok "}

\* a well-formed uuid that no session row carries
UnknownId == MaxSessions + 1

\* JavaScript truthiness of a string | null | undefined
Truthy(v) == v # NULL /\ v # ""

\* String.prototype.trim on the reply values of the model
trim(s) == CASE s = "  " -> ""
             [] s = " ok " -> "ok"
             [] OTHER -> s

\* a ?? b
Coalesce(a, b) == IF a = NULL THEN b ELSE a

\* Math.max
Max(a, b) == IF a >= b THEN a ELSE b

\* the literal of the gate and of freeMessagesLeft
FreeLimitBackend == 5

FreeLimitUnnamed == 4

\* 'First 4 user messages are free, then wallet connect required.'
ReadmeFreeLimit == 4

\* a variant in which both builds carry the literal 5
FreeLimitOfBackend(b) == FreeLimitBackend

FREE_LIMIT(b) == IF b = "backend" THEN FreeLimitBackend ELSE FreeLimitUnnamed

\* default of getRecentMessages' limit and the value /api/chat passes
HistoryLimit == 8

\* ------------------------------------------------------------------ state
VARIABLES
  scope,       \* which inputs the clients of this run send (never changes)
  build,       \* which build of the backend runs
  sessions,    \* table sessions: sequence of rows, the id is the index
  messages,    \* table messages: per session id, the rows in insertion order
  lastInsert,  \* <<session, slot>> of the INSERT executed by the last step, or <<0, 0>>
  sent,        \* the response sent by the last step and the request it answers, or NoSent
  inserted,    \* number of message rows inserted since the start
  req          \* per slot: the request being handled and its local variables

vars == <<scope, build, sessions, messages, lastInsert, sent, inserted, req>>

Config == <<scope, build>>

\* A run follows one session through the gate, with requests that overlap
\* (scope "gate": well-formed requests of the three session endpoints and of
\* the token lookup, the database up), or it handles one request after the
\* other (scope "seq": every endpoint, every input value, every failure,
\* several sessions), or it follows the wallet of one session through chat
\* and analyze requests that overlap and carry different addresses (scope
\* "bind", otherwise as "gate"), or it follows the locale of one session
\* through requests that never overlap and carry every locale (scope "locale",
\* otherwise as "bind").
SessionCap == IF scope # "seq" THEN 1 ELSE MaxSessions

MessageCap == IF scope # "seq" THEN MaxMessages ELSE MaxSeqMessages

\* the wallet addresses, null included, that requests carry in this run
WalletInputs == IF scope = "gate" THEN {NULL, "", "wA"} ELSE (Wallets \ {""}) \cup {NULL}

\* the locales, null included, that requests carry in this run
LocaleInputs == IF scope = "locale" THEN Locales \cup {NULL} ELSE {NULL}

\* --------------------------------------------------------- the two tables
\* the value of a `SessionRow | null` that is null
NoSession == [id |-> 0, wallet_address |-> NULL, locale |-> NULL]

\* SELECT * FROM sessions WHERE id = $1; rows[0] ?? null
getSession(sessionId) ==
  IF sessionId \in 1..Len(sessions)
  THEN [id |-> sessionId,
        wallet_address |-> sessions[sessionId].wallet_address,
        locale |-> sessions[sessionId].locale]
  ELSE NoSession

\* the row INSERTed by createSession(locale, walletAddress): uuidv4() is the
\* next unused index; an undefined walletAddress is stored as null
createSession(locale, walletAddress) ==
  [id |-> Len(sessions) + 1, wallet_address |-> walletAddress, locale |-> locale]

\* the table sessions after createSession's INSERT
sessionsAfterCreate(row) ==
  Append(sessions, [wallet_address |-> row.wallet_address, locale |-> row.locale])

\* a variant whose UPDATE has no WHERE clause
attachWalletEverywhere(sessionId, walletAddress) ==
  [i \in 1..Len(sessions) |-> [sessions[i] EXCEPT !.wallet_address = walletAddress]]

\* the table sessions after UPDATE sessions SET wallet_address = $1 WHERE id = $2
attachWallet(sessionId, walletAddress) ==
  [sessions EXCEPT ![sessionId].wallet_address = walletAddress]

\* created_at TIMESTAMPTZ DEFAULT NOW(): a row gets a later timestamp than the
\* newest row of its session, or the same one when the preceding step was an
\* INSERT of another request into the same session (same microsecond)
createdAtChoices(sessionId, k) ==
  LET log == messages[sessionId]
      last == IF log = <<>> THEN 0 ELSE log[Len(log)].created_at
  IN  {last + 1} \cup
      (IF lastInsert[1] = sessionId /\ lastInsert[2] # k /\ log # <<>>
       THEN {last} ELSE {})

\* a variant that keeps one row per session and role (an upsert): a later
\* row of the same role takes the place of the stored one
storeMessageUpsert(sessionId, role, content, t) ==
  LET log == messages[sessionId]
      row == [id |-> Len(log) + 1, role |-> role, content |-> content, created_at |-> t]
  IN  [messages EXCEPT ![sessionId] =
         IF \E i \in 1..Len(log) : log[i].role = role
         THEN [i \in 1..Len(log) |-> IF log[i].role = role THEN row ELSE log[i]]
         ELSE Append(log, row)]

\* the table messages after storeMessage(sessionId, role, content) whose row
\* got the timestamp t; the row id (uuidv4) is the insertion index
storeMessage(sessionId, role, content, t) ==
  [messages EXCEPT ![sessionId] =
     Append(@, [id |-> Len(@) + 1, role |-> role, content |-> content,
                created_at |-> t])]

\* Array.prototype.reverse
Reverse(s) == [i \in 1..Len(s) |-> s[Len(s) + 1 - i]]

\* all sequences that list the elements of the set S once
RECURSIVE Orderings(_)
Orderings(S) ==
  IF S = {} THEN {<<>>}
  ELSE UNION {{<<x>> \o p : p \in Orderings(S \ {x})} : x \in S}

\* ORDER BY created_at ASC over a set of rows: rows with equal created_at come
\* in an order the database is free to choose
RECURSIVE OrderByCreatedAtAsc(_)
OrderByCreatedAtAsc(rows) ==
  IF rows = {} THEN {<<>>}
  ELSE LET m == CHOOSE t \in {r.created_at : r \in rows} :
                   \A r \in rows : t <= r.created_at
           G == {r \in rows : r.created_at = m}
       IN  UNION {{p \o q : q \in OrderByCreatedAtAsc(rows \ G)} : p \in Orderings(G)}

\* ORDER BY created_at DESC
OrderByCreatedAtDesc(rows) == {Reverse(a) : a \in OrderByCreatedAtAsc(rows)}

\* the rows of a session as a set
Rows(sessionId) == {messages[sessionId][i] : i \in 1..Len(messages[sessionId])}

\* the results getMessages(sessionId) can return
getMessages(sessionId) == OrderByCreatedAtAsc(Rows(sessionId))

\* a variant whose query has no LIMIT
getRecentMessagesUnlimited(sessionId, limit) ==
  {Reverse(d) : d \in OrderByCreatedAtDesc(Rows(sessionId))}

\* the results getRecentMessages(sessionId, limit) can return:
\* ORDER BY created_at DESC LIMIT $2, then rows.reverse()
getRecentMessages(sessionId, limit) ==
  {Reverse(SubSeq(d, 1, IF Len(d) < limit THEN Len(d) ELSE limit)) :
     d \in OrderByCreatedAtDesc(Rows(sessionId))}

\* a variant without the role filter: SELECT COUNT(*) ... WHERE session_id = $1
getMessageCountAnyRole(sessionId) == Len(messages[sessionId])

\* SELECT COUNT(*) ... WHERE session_id = $1 AND role = 'user'
getMessageCount(sessionId) ==
  Cardinality({i \in 1..Len(messages[sessionId]) : messages[sessionId][i].role = "user"})

\* the log of a session after j sequential chat turns that all succeeded
PriorLog(j) ==
  [i \in 1..(2 * j) |-> [id |-> i, role |-> IF i % 2 = 1 THEN "user" ELSE "assistant",
                         content |-> IF i % 2 = 1 THEN "hi" ELSE "ok", created_at |-> i]]

\* ------------------------------------------------------ requests in flight
\* what a handler has done so far: INSERTs into messages, UPDATEs of the
\* wallet, getTokenInfo calls that reached the RPC, completions requested,
\* queries that threw because the database was unreachable
NoOps == [msgWrites |-> 0, walletWrites |-> 0, rpc |-> 0, llm |-> 0, dbErrors |-> 0]

NoPayload == [sessionId |-> 0, locale |-> NULL, walletAddress |-> NULL,
              prompt |-> NULL, mint |-> NULL]

\* no token snapshot
NoInfo == [mint |-> NULL, largestHolders |-> <<>>]

\* no answer of the chain
NoChain == [top |-> NULL, decimals |-> 0, amounts |-> <<>>, lookups |-> <<>>]

\* a response not yet sent; a sent one has its HTTP status and the fields of
\* its JSON body
NoRes == [status |-> 0, requireWallet |-> FALSE, error |-> FALSE, sessionId |-> 0,
          walletAddress |-> NULL, locale |-> NULL, freeMessagesLeft |-> 0 - 1,
          message |-> NULL, token |-> NoInfo, messageCount |-> 0 - 1,
          userMessageCount |-> 0 - 1, messages |-> <<>>]

\* res.status(n).json(body)
Res(status, body) == [f \in DOMAIN NoRes |-> IF f = "status" THEN status
                                             ELSE IF f \in DOMAIN body THEN body[f]
                                             ELSE NoRes[f]]

\* a free slot
IdleReq == [pc |-> "idle", kind |-> NULL, payload |-> NoPayload, session |-> NoSession,
            totalMessages |-> 0 - 1, history |-> <<>>, historyRead |-> FALSE,
            reply |-> NULL, info |-> NoInfo, messages |-> <<>>, messagesRead |-> FALSE,
            userMessageCount |-> 0 - 1, ops |-> NoOps, chain |-> NoChain, res |-> NoRes]

\* z.string().uuid().optional(): absent (0), the id of a session, a uuid that
\* no session has (UnknownId), or not a uuid (-1).  The client of a gate run
\* sends well-formed payloads and keeps to its session once it has one.
SessionIdInputs ==
  IF scope # "seq"
  THEN (IF sessions = <<>> THEN {0, UnknownId} ELSE 1..Len(sessions))
  ELSE ((0 - 1)..UnknownId) \ ((Len(sessions) + 1)..MaxSessions)

\* the database is reachable throughout a gate run; elsewhere any query may throw
DbMayFail == scope = "seq"

\* sessionSchema / chatSchema / tokenAnalyzeSchema accept the payload
ValidCommon(p) == p.sessionId >= 0 /\ p.locale \in Locales \cup {NULL}

\* a variant whose prompt is z.string() without min(1)
chatSchemaAnyPrompt(p) == ValidCommon(p) /\ p.prompt # NULL

chatSchema(p) == ValidCommon(p) /\ p.prompt \notin {NULL, ""}

tokenAnalyzeSchema(p) == ValidCommon(p) /\ p.mint \notin {NULL, ""}

sessionSchema(p) == ValidCommon(p)

\* the well-formed payloads of this run, and one malformed payload per rule
\* of the schema
Payloads(texts, field) ==
  {[NoPayload EXCEPT !.sessionId = sid, ![field] = t, !.locale = loc, !.walletAddress = w] :
     sid \in SessionIdInputs \ {0 - 1}, t \in texts, loc \in LocaleInputs, w \in WalletInputs}
  \cup (IF scope # "seq" THEN {}
        ELSE {[NoPayload EXCEPT !.sessionId = 0 - 1, ![field] = CHOOSE t \in texts : TRUE],
              [NoPayload EXCEPT !.locale = "fr", ![field] = CHOOSE t \in texts : TRUE],
              [NoPayload EXCEPT ![field] = ""], NoPayload})

ChatPayloads == Payloads(Prompts, "prompt")

\* the mints that requests carry in this run
MintInputs == IF scope # "seq" THEN {"mintA"} ELSE Mints

AnalyzePayloads == Payloads(MintInputs, "mint")

SessionPayloads ==
  {[NoPayload EXCEPT !.sessionId = sid, !.locale = loc, !.walletAddress = w] :
     sid \in SessionIdInputs \ {0 - 1}, loc \in LocaleInputs, w \in WalletInputs}
  \cup (IF scope # "seq" THEN {}
        ELSE {[NoPayload EXCEPT !.sessionId = 0 - 1], [NoPayload EXCEPT !.locale = "fr"]})

\* INSERTs into sessions that the request in slot k may still execute
PendingCreates(k) ==
  LET r == req[k] IN
  IF r.pc = "create" THEN 1 ELSE 0

\* the same, summed over the slots S
RECURSIVE PendingCreatesOf(_)
PendingCreatesOf(S) ==
  IF S = {} THEN 0
  ELSE LET x == CHOOSE y \in S : TRUE IN PendingCreates(x) + PendingCreatesOf(S \ {x})

\* the run has room for the session rows that the requests in flight may
\* still insert plus `news` more
Room(news) == Len(sessions) + PendingCreatesOf(Slots) + news <= SessionCap

\* the run has room for one more message row
RoomForMessage == inserted < MessageCap

\* a sequential run takes a chat or analyze request only while it has room
\* for the two rows of the turn
RoomForTurn == scope # "seq" \/ inserted + 2 <= MessageCap

\* the slot a new request is handled in
FreeSlot(k) ==
  /\ req[k].pc = "idle"
  /\ \A j \in Slots : j < k => req[j].pc # "idle"
  /\ scope = "seq" => \A j \in Slots : req[j].pc = "idle"

\* no response yet
NoSent == [slot |-> 0, kind |-> NULL, sessionId |-> 0, payload |-> NoPayload,
           ops |-> NoOps, chain |-> NoChain, res |-> NoRes]

\* the request in slot k goes on as r; an r that has answered (pc "done") frees
\* the slot and leaves its response, with what the request did, what of its
\* payload it had still to read, and what the chain answered to the
\* getTokenInfo call of this step, in `sent`
Set(k, r) ==
  /\ sent = NoSent
  /\ req' = [req EXCEPT ![k] = IF r.pc = "done" THEN IdleReq ELSE r]
  /\ sent' = IF r.pc = "done"
             THEN [slot |-> k, kind |-> r.kind, sessionId |-> r.session.id,
                   payload |-> r.payload, ops |-> r.ops, chain |-> r.chain,
                   res |-> r.res]
             ELSE NoSent

NoInsert == lastInsert' = <<0, 0>> /\ UNCHANGED inserted

Store == <<sessions, messages>>

\* ---------------------------------------------------------------- /api/chat
\* the catch block of /api/chat, /api/session and /api/token/analyze:
\* status 400 with the error's message
Catch(r) == [r EXCEPT !.pc = "done", !.res = Res(400, [error |-> TRUE])]

\* a pool.query of the handler threw
DbThrew(r) == [r EXCEPT !.ops.dbErrors = @ + 1]

\* the session is resolved: payload.sessionId is not read again
Resolved(r, row) ==
  [r EXCEPT !.session = row, !.payload.sessionId = 0]

\* a POST /api/chat arrives: chatSchema.parse, which throws on a malformed
\* payload, then the first await: payload.sessionId ? getSession(...) :
\* createSession(payload.locale ?? 'en', payload.walletAddress ?? undefined)
ChatStart(k) ==
  /\ FreeSlot(k)
  /\ \E p \in ChatPayloads :
       LET r == [IdleReq EXCEPT !.kind = "chat", !.payload = p]
           sid == p.sessionId
           got == getSession(sid)
           new == createSession(Coalesce(p.locale, "en"), p.walletAddress)
       IN  IF ~chatSchema(p)
           THEN Set(k, Catch(r)) /\ UNCHANGED Store
           ELSE /\ Room(IF sid \in 1..Len(sessions) THEN 0 ELSE 1)
                /\ RoomForTurn
                /\ \/ DbMayFail /\ Set(k, Catch(DbThrew(r))) /\ UNCHANGED Store
                   \/ /\ sid # 0
                      /\ Set(k, IF got = NoSession THEN [r EXCEPT !.pc = "create"]
                                ELSE [Resolved(r, got) EXCEPT !.pc = "gate"])
                      /\ UNCHANGED Store
                   \/ /\ sid = 0
                      /\ sessions' = sessionsAfterCreate(new)
                      /\ messages' = Append(messages, <<>>)
                      /\ Set(k, [Resolved(r, new) EXCEPT !.pc = "gate"])
  /\ NoInsert
  /\ UNCHANGED Config

\* if (!session) session = await createSession(payload.locale ?? 'en', ...)
ChatCreateSession(k) ==
  LET r == req[k]
      row == createSession(Coalesce(r.payload.locale, "en"), r.payload.walletAddress)
  IN  /\ r.kind = "chat" /\ r.pc = "create"
      /\ sessions' = sessionsAfterCreate(row)
      /\ messages' = Append(messages, <<>>)
      /\ Set(k, [Resolved(r, row) EXCEPT !.pc = "gate"])
      /\ NoInsert
      /\ UNCHANGED Config

\* variants of the gate: totalMessages > LIMIT; the wallets not consulted;
\* the stored wallet not consulted
GateBlocksAbove(b, totalMessages, wallet_address, walletAddress) ==
  totalMessages > FREE_LIMIT(b) /\ ~(Truthy(wallet_address) \/ Truthy(walletAddress))

GateBlocksCountOnly(b, totalMessages, wallet_address, walletAddress) ==
  totalMessages >= FREE_LIMIT(b)

GateBlocksPayloadOnly(b, totalMessages, wallet_address, walletAddress) ==
  totalMessages >= FREE_LIMIT(b) /\ ~Truthy(walletAddress)

\* the gate: totalMessages >= LIMIT && !(session.wallet_address || payload.walletAddress)
GateBlocks(b, totalMessages, wallet_address, walletAddress) ==
  totalMessages >= FREE_LIMIT(b) /\ ~(Truthy(wallet_address) \/ Truthy(walletAddress))

\* return res.status(403).json({requireWallet: true, message})
RequireWallet(r) ==
  [r EXCEPT !.pc = "done", !.res = Res(403, [requireWallet |-> TRUE])]

\* incomingWallet && !session.wallet_address
AttachIfAbsent(r) == Truthy(r.payload.walletAddress) /\ ~Truthy(r.session.wallet_address)

\* const totalMessages = await getMessageCount(session.id); the gate; the
\* test whether a wallet is to be attached
ChatGate(k) ==
  LET r == req[k]
      n == getMessageCount(r.session.id)
  IN  /\ r.kind = "chat" /\ r.pc = "gate"
      /\ IF GateBlocks(build, n, r.session.wallet_address, r.payload.walletAddress)
         THEN Set(k, RequireWallet(r))
         ELSE IF AttachIfAbsent(r)
         THEN Set(k, [r EXCEPT !.pc = "attach"])
         ELSE Set(k, [r EXCEPT !.pc = "history"])
      /\ NoInsert
      /\ UNCHANGED <<Config, Store>>

\* await attachWallet(session.id, incomingWallet); session.wallet_address = incomingWallet
ChatAttachWallet(k) ==
  LET r == req[k] IN
  /\ r.kind = "chat" /\ r.pc = "attach"
  /\ sessions' = attachWallet(r.session.id, r.payload.walletAddress)
  /\ Set(k, [r EXCEPT !.session.wallet_address = r.payload.walletAddress,
                       !.ops.walletWrites = @ + 1, !.pc = "history"])
  /\ NoInsert
  /\ UNCHANGED <<Config, messages>>

\* const history = await getRecentMessages(session.id, 8); the payload's
\* wallet is not read again
ChatHistory(k) ==
  LET r == req[k] IN
  /\ r.kind = "chat" /\ r.pc = "history"
  /\ \E h \in getRecentMessages(r.session.id, HistoryLimit) :
       Set(k, [r EXCEPT !.history = h, !.payload.walletAddress = NULL, !.pc = "storeUser"])
  /\ NoInsert
  /\ UNCHANGED <<Config, Store>>

\* a variant that leaves the user row to be written with the reply, as
\* /api/token/analyze does
ChatStoreUserDeferred(k) ==
  LET r == req[k] IN
  /\ r.kind = "chat" /\ r.pc = "storeUser"
  /\ Set(k, [r EXCEPT !.pc = "llm"])
  /\ NoInsert
  /\ UNCHANGED <<Config, Store>>

\* await storeMessage(session.id, 'user', payload.prompt)
ChatStoreUser(k) ==
  LET r == req[k] IN
  /\ r.kind = "chat" /\ r.pc = "storeUser"
  /\ RoomForMessage
  /\ \E t \in createdAtChoices(r.session.id, k) :
       messages' = storeMessage(r.session.id, "user", r.payload.prompt, t)
  /\ lastInsert' = <<r.session.id, k>>
  /\ inserted' = inserted + 1
  /\ Set(k, [r EXCEPT !.ops.msgWrites = @ + 1, !.pc = "llm"])
  /\ UNCHANGED <<Config, sessions>>

\* buildSystemPrompt(locale): the persona text with the guidance of the locale
buildSystemPrompt(locale) == IF locale = "zh" THEN "persona-zh" ELSE "persona-en"

\* a variant whose system instruction follows the locale of the request
ChatMessagesOfRequestLocale(r) ==
  <<[role |-> "system",
     content |-> buildSystemPrompt(Coalesce(r.payload.locale, Coalesce(r.session.locale, "en")))]>>
  \o [i \in 1..Len(r.history) |->
        [role |-> r.history[i].role, content |-> r.history[i].content]]
  \o <<[role |-> "user", content |-> r.payload.prompt]>>

\* the messages array of /api/chat's completion request
ChatMessages(r) ==
  <<[role |-> "system", content |-> buildSystemPrompt(Coalesce(r.session.locale, "en"))]>>
  \o [i \in 1..Len(r.history) |->
        [role |-> r.history[i].role, content |-> r.history[i].content]]
  \o <<[role |-> "user", content |-> r.payload.prompt]>>

\* await openai.chat.completions.create(...): it throws, or it answers;
\* reply = completion.choices[0]?.message?.content?.trim() ?? ''.
\* history, the prompt and session.locale are not read afterwards.
ChatCompletion(k) ==
  LET r == req[k]
      r1 == [r EXCEPT !.ops.llm = @ + 1]
  IN  /\ r.kind = "chat" /\ r.pc = "llm"
      /\ \/ Set(k, Catch(r1))
         \/ \E raw \in RawReplies :
              Set(k, [r1 EXCEPT !.reply = Coalesce(trim(raw), ""), !.pc = "storeAsst",
                                !.history = <<>>, !.payload.prompt = NULL,
                                !.session.locale = NULL])
      /\ NoInsert
      /\ UNCHANGED <<Config, Store>>

\* a variant that stores the reply only when it is not empty, as
\* /api/token/analyze does
ChatStoreAssistantIfReply(k) ==
  LET r == req[k] IN
  /\ r.kind = "chat" /\ r.pc = "storeAsst"
  /\ IF Truthy(r.reply)
     THEN /\ RoomForMessage
          /\ \E t \in createdAtChoices(r.session.id, k) :
               messages' = storeMessage(r.session.id, "assistant", r.reply, t)
          /\ lastInsert' = <<r.session.id, k>>
          /\ inserted' = inserted + 1
          /\ Set(k, [r EXCEPT !.ops.msgWrites = @ + 1, !.pc = "count"])
     ELSE /\ Set(k, [r EXCEPT !.pc = "count"])
          /\ NoInsert
          /\ UNCHANGED messages
  /\ UNCHANGED <<Config, sessions>>

\* a variant that evaluates the gate again before the reply is stored
ChatStoreAssistantRegated(k) ==
  LET r == req[k]
      n == getMessageCount(r.session.id)
  IN  /\ r.kind = "chat" /\ r.pc = "storeAsst"
      /\ IF n >= FREE_LIMIT(build) /\ ~Truthy(r.session.wallet_address)
         THEN /\ Set(k, [r EXCEPT !.pc = "done", !.res = Res(403, [requireWallet |-> TRUE])])
              /\ NoInsert
              /\ UNCHANGED messages
         ELSE /\ RoomForMessage
              /\ \E t \in createdAtChoices(r.session.id, k) :
                   messages' = storeMessage(r.session.id, "assistant", r.reply, t)
              /\ lastInsert' = <<r.session.id, k>>
              /\ inserted' = inserted + 1
              /\ Set(k, [r EXCEPT !.ops.msgWrites = @ + 1, !.pc = "count"])
      /\ UNCHANGED <<Config, sessions>>

\* await storeMessage(session.id, 'assistant', reply)
ChatStoreAssistant(k) ==
  LET r == req[k] IN
  /\ r.kind = "chat" /\ r.pc = "storeAsst"
  /\ RoomForMessage
  /\ \E t \in createdAtChoices(r.session.id, k) :
       messages' = storeMessage(r.session.id, "assistant", r.reply, t)
  /\ lastInsert' = <<r.session.id, k>>
  /\ inserted' = inserted + 1
  /\ Set(k, [r EXCEPT !.ops.msgWrites = @ + 1, !.pc = "count"])
  /\ UNCHANGED <<Config, sessions>>

\* a variant without Math.max
freeMessagesLeftUnclamped(b, userMessageCount) == FREE_LIMIT(b) - userMessageCount

\* Math.max(0, LIMIT - userMessageCount)
freeMessagesLeft(b, userMessageCount) == Max(0, FREE_LIMIT(b) - userMessageCount)

\* const freeMessagesLeft = Math.max(0, LIMIT - (await getMessageCount(session.id)));
\* res.json({sessionId, message: reply, walletAddress, freeMessagesLeft})
ChatRespond(k) ==
  LET r == req[k]
      n == getMessageCount(r.session.id)
  IN  /\ r.kind = "chat" /\ r.pc = "count"
      /\ Set(k, [r EXCEPT !.pc = "done",
                    !.res = Res(200, [sessionId |-> r.session.id, message |-> r.reply,
                                      walletAddress |-> r.session.wallet_address,
                                      freeMessagesLeft |-> freeMessagesLeft(build, n)])])
      /\ NoInsert
      /\ UNCHANGED <<Config, Store>>

\* ------------------------------------------------------- /api/token/analyze
\* getTokenInfo(mintAddress): new PublicKey(mintAddress) throws on a malformed
\* address before any RPC; otherwise the snapshot, or a throw of the RPC layer
ValidMint(m) == m # "bad"

\* largestAccounts.value.slice(0, 5)
TopHolders == 5

\* the outcomes of the getParsedAccountInfo calls for n largest accounts: all
\* resolve to `owner` (an owner, or null where the account has no parsed
\* owner), but the call for account `bad` throws
Lookups(n, owner, bad) == [i \in 1..n |-> IF i = bad THEN "throws" ELSE owner]

\* the uiAmount of the n accounts that getTokenLargestAccounts lists, largest
\* first: all different, or all the same
Amounts(n, flat) == [i \in 1..n |-> IF flat THEN 7 ELSE 10 * (n + 1 - i)]

\* the supply and the list as the chain may report them: <<decimals of the
\* supply, whether the listed amounts are all the same>>
SupplyCases == IF scope # "seq" THEN {<<6, FALSE>>} ELSE {<<6, FALSE>>, <<9, TRUE>>}

\* the lookups as the chain may answer them: <<the owner they resolve to, the
\* account whose lookup throws (0: none)>>
LookupCases ==
  {<<"owner", 0>>, <<NULL, 0>>, <<"owner", 1>>, <<"owner", 2>>, <<"owner", TopHolders + 1>>}

\* what the chain can answer to one getTokenInfo call: the supply or the
\* largest-accounts query throws, or both answer (the supply with its
\* decimals, the list with the amounts of its accounts) and each largest
\* account has the outcome of its lookup
ChainAnswers ==
  {[NoChain EXCEPT !.top = "throws"]} \cup
  {[top |-> "ok", decimals |-> sc[1], amounts |-> Amounts(Len(l), sc[2]), lookups |-> l] :
     sc \in SupplyCases,
     l \in IF scope # "seq" THEN {<<>>}
           ELSE {Lookups(n, lc[1], lc[2]) : n \in {0, 2, TopHolders + 1},
                                           lc \in LookupCases}}

\* the RPC calls of getTokenInfo carry no timeout: outside a gate run the chain
\* may leave a call without any answer
ChainMayHang == scope = "seq"

\* the request waits for an RPC answer that never comes; no step follows
Pending(r) == [r EXCEPT !.pc = "pending", !.ops.rpc = @ + 1]

\* the snapshot getTokenInfo returns
TokenInfo(m, holders) == [mint |-> m, largestHolders |-> holders]

\* holders.push({address, owner: parsedInfo?.info?.owner ?? null,
\* amount: account.uiAmount, decimals: supply.value.decimals}) for the i-th
\* largest account
Holder(c, i) ==
  [address |-> i, owner |-> c.lookups[i], amount |-> c.amounts[i],
   decimals |-> c.decimals]

\* a variant without slice(0, 5): every listed account is looked up
getTokenInfoUnsliced(m, c) ==
  LET n == Len(c.lookups) IN
  IF c.top = "throws" \/ \E i \in 1..n : c.lookups[i] = "throws"
  THEN NoInfo
  ELSE TokenInfo(m, [i \in 1..n |-> Holder(c, i)])

\* getTokenInfo(mintAddress) on a well-formed address, the chain answering c:
\* the snapshot with the first five largest accounts and their owners, or
\* NoInfo when one of the awaited calls throws
getTokenInfo(m, c) ==
  LET n == IF Len(c.lookups) < TopHolders THEN Len(c.lookups) ELSE TopHolders IN
  IF c.top = "throws" \/ \E i \in 1..n : c.lookups[i] = "throws"
  THEN NoInfo
  ELSE TokenInfo(m, [i \in 1..n |-> Holder(c, i)])

\* a POST /api/token/analyze arrives: tokenAnalyzeSchema.parse, then
\* payload.sessionId ? getSession(...) : createSession(...), then
\* if (!session) return res.status(404)
AnalyzeStart(k) ==
  /\ FreeSlot(k)
  /\ \E p \in AnalyzePayloads :
       LET r == [IdleReq EXCEPT !.kind = "analyze", !.payload = p]
           sid == p.sessionId
           got == getSession(sid)
           new == createSession(Coalesce(p.locale, "en"), p.walletAddress)
       IN  IF ~tokenAnalyzeSchema(p)
           THEN Set(k, Catch(r)) /\ UNCHANGED Store
           ELSE /\ Room(IF sid = 0 THEN 1 ELSE 0)
                /\ RoomForTurn
                /\ \/ DbMayFail /\ Set(k, Catch(DbThrew(r))) /\ UNCHANGED Store
                   \/ /\ sid # 0
                      /\ Set(k, IF got = NoSession
                                THEN [r EXCEPT !.pc = "done", !.res = Res(404, [error |-> TRUE])]
                                ELSE [Resolved(r, got) EXCEPT !.pc = "gate"])
                      /\ UNCHANGED Store
                   \/ /\ sid = 0
                      /\ sessions' = sessionsAfterCreate(new)
                      /\ messages' = Append(messages, <<>>)
                      /\ Set(k, [Resolved(r, new) EXCEPT !.pc = "gate"])
  /\ NoInsert
  /\ UNCHANGED Config

\* const totalMessages = await getMessageCount(session.id); the gate; the
\* test whether a wallet is to be attached
AnalyzeGate(k) ==
  LET r == req[k]
      n == getMessageCount(r.session.id)
  IN  /\ r.kind = "analyze" /\ r.pc = "gate"
      /\ IF GateBlocks(build, n, r.session.wallet_address, r.payload.walletAddress)
         THEN Set(k, RequireWallet(r))
         ELSE IF AttachIfAbsent(r)
         THEN Set(k, [r EXCEPT !.pc = "attach"])
         ELSE Set(k, [r EXCEPT !.pc = "chain"])
      /\ NoInsert
      /\ UNCHANGED <<Config, Store>>

\* await attachWallet(session.id, incomingWallet)
AnalyzeAttachWallet(k) ==
  LET r == req[k] IN
  /\ r.kind = "analyze" /\ r.pc = "attach"
  /\ sessions' = attachWallet(r.session.id, r.payload.walletAddress)
  /\ Set(k, [r EXCEPT !.session.wallet_address = r.payload.walletAddress,
                       !.ops.walletWrites = @ + 1, !.pc = "chain"])
  /\ NoInsert
  /\ UNCHANGED <<Config, messages>>

\* const info = await getTokenInfo(payload.mint); the wallets of the payload
\* and of the session row are not read again
AnalyzeTokenInfo(k) ==
  LET r == req[k] IN
  /\ r.kind = "analyze" /\ r.pc = "chain"
  /\ IF ~ValidMint(r.payload.mint)
     THEN Set(k, Catch(r))
     ELSE \/ ChainMayHang /\ Set(k, Pending(r))
          \/ \E c \in ChainAnswers :
               LET info == getTokenInfo(r.payload.mint, c) IN
               IF info = NoInfo
               THEN Set(k, Catch([r EXCEPT !.ops.rpc = @ + 1, !.chain = c]))
               ELSE Set(k, [r EXCEPT !.ops.rpc = @ + 1, !.info = info,
                                     !.payload.mint = NULL, !.payload.walletAddress = NULL,
                                     !.session.wallet_address = NULL, !.pc = "llm"])
  /\ NoInsert
  /\ UNCHANGED <<Config, Store>>

\* the messages array of /api/token/analyze's completion request
AnalyzeMessages(r) ==
  <<[role |-> "system", content |-> buildSystemPrompt(Coalesce(r.session.locale, "en"))],
    [role |-> "user", content |-> <<"Token mint", r.info.mint>>]>>

\* a variant that stores the turn whatever the reply, as /api/chat does
AnalyzeCompletionAlwaysStores(k) ==
  LET r == req[k]
      r1 == [r EXCEPT !.ops.llm = @ + 1]
  IN  /\ r.kind = "analyze" /\ r.pc = "llm"
      /\ \/ Set(k, [r1 EXCEPT !.pc = "done", !.res = Res(400, [error |-> TRUE])])
         \/ \E raw \in RawReplies :
              Set(k, [r1 EXCEPT !.reply = trim(raw), !.session.locale = NULL,
                                !.pc = "storeUser"])
      /\ NoInsert
      /\ UNCHANGED <<Config, Store>>

\* await openai.chat.completions.create(...): it throws, or it answers;
\* reply = completion.choices[0]?.message?.content?.trim(); if (reply) {...}
AnalyzeCompletion(k) ==
  LET r == req[k]
      r1 == [r EXCEPT !.ops.llm = @ + 1]
  IN  /\ r.kind = "analyze" /\ r.pc = "llm"
      /\ \/ Set(k, Catch(r1))
         \/ \E raw \in RawReplies :
              Set(k, [r1 EXCEPT !.reply = trim(raw), !.session.locale = NULL,
                                !.pc = IF Truthy(trim(raw)) THEN "storeUser" ELSE "count"])
      /\ NoInsert
      /\ UNCHANGED <<Config, Store>>

\* await storeMessage(session.id, 'user', `Analyze token ${info.mint}`)
AnalyzeStoreUser(k) ==
  LET r == req[k] IN
  /\ r.kind = "analyze" /\ r.pc = "storeUser"
  /\ RoomForMessage
  /\ \E t \in createdAtChoices(r.session.id, k) :
       messages' = storeMessage(r.session.id, "user", <<"Analyze token", r.info.mint>>, t)
  /\ lastInsert' = <<r.session.id, k>>
  /\ inserted' = inserted + 1
  /\ Set(k, [r EXCEPT !.ops.msgWrites = @ + 1, !.pc = "storeAsst"])
  /\ UNCHANGED <<Config, sessions>>

\* await storeMessage(session.id, 'assistant', reply)
AnalyzeStoreAssistant(k) ==
  LET r == req[k] IN
  /\ r.kind = "analyze" /\ r.pc = "storeAsst"
  /\ RoomForMessage
  /\ \E t \in createdAtChoices(r.session.id, k) :
       messages' = storeMessage(r.session.id, "assistant", r.reply, t)
  /\ lastInsert' = <<r.session.id, k>>
  /\ inserted' = inserted + 1
  /\ Set(k, [r EXCEPT !.ops.msgWrites = @ + 1, !.pc = "count"])
  /\ UNCHANGED <<Config, sessions>>

\* const freeMessagesLeft = Math.max(0, LIMIT - (await getMessageCount(session.id)));
\* res.json({sessionId, analysis: reply, token: info, freeMessagesLeft})
AnalyzeRespond(k) ==
  LET r == req[k]
      n == getMessageCount(r.session.id)
  IN  /\ r.kind = "analyze" /\ r.pc = "count"
      /\ Set(k, [r EXCEPT !.pc = "done",
                    !.res = Res(200, [sessionId |-> r.session.id, message |-> r.reply,
                                      token |-> r.info,
                                      freeMessagesLeft |-> freeMessagesLeft(build, n)])])
      /\ NoInsert
      /\ UNCHANGED <<Config, Store>>

\* -------------------------------------------------------------- /api/session
\* a variant without the test of incomingWallet: any payload whose address
\* differs from the stored one is written, a null or empty one included
AttachWheneverDifferent(wallet_address, walletAddress) ==
  wallet_address # walletAddress

\* a variant that attaches only when the session has no wallet, as /api/chat does
AttachOnlyIfAbsent(wallet_address, walletAddress) ==
  Truthy(walletAddress) /\ ~Truthy(wallet_address)

\* incomingWallet && session.wallet_address !== incomingWallet
AttachIfDifferent(wallet_address, walletAddress) ==
  Truthy(walletAddress) /\ wallet_address # walletAddress

\* the session of /api/session is known: attach the wallet or go on to the reads
SessionResolved(r, row) ==
  IF AttachIfDifferent(row.wallet_address, r.payload.walletAddress)
  THEN [Resolved(r, row) EXCEPT !.pc = "attach"]
  ELSE [Resolved(r, row) EXCEPT !.pc = "reads"]

\* a POST /api/session arrives: sessionSchema.parse, then
\* payload.sessionId ? await getSession(payload.sessionId) : null, then
\* if (!session) session = await createSession(...)
SessionStart(k) ==
  /\ FreeSlot(k)
  /\ \E p \in SessionPayloads :
       LET r == [IdleReq EXCEPT !.kind = "session", !.payload = p]
           sid == p.sessionId
           got == getSession(sid)
           new == createSession(Coalesce(p.locale, "en"), p.walletAddress)
       IN  IF ~sessionSchema(p)
           THEN Set(k, Catch(r)) /\ UNCHANGED Store
           ELSE /\ Room(IF sid \in 1..Len(sessions) THEN 0 ELSE 1)
                /\ \/ DbMayFail /\ Set(k, Catch(DbThrew(r))) /\ UNCHANGED Store
                   \/ /\ sid # 0
                      /\ Set(k, IF got = NoSession THEN [r EXCEPT !.pc = "create"]
                                ELSE SessionResolved(r, got))
                      /\ UNCHANGED Store
                   \/ /\ sid = 0
                      /\ sessions' = sessionsAfterCreate(new)
                      /\ messages' = Append(messages, <<>>)
                      /\ Set(k, SessionResolved(r, new))
  /\ NoInsert
  /\ UNCHANGED Config

\* session = await createSession(payload.locale ?? 'en', payload.walletAddress ?? undefined)
SessionCreateSession(k) ==
  LET r == req[k]
      row == createSession(Coalesce(r.payload.locale, "en"), r.payload.walletAddress)
  IN  /\ r.kind = "session" /\ r.pc = "create"
      /\ sessions' = sessionsAfterCreate(row)
      /\ messages' = Append(messages, <<>>)
      /\ Set(k, SessionResolved(r, row))
      /\ NoInsert
      /\ UNCHANGED Config

\* await attachWallet(session.id, incomingWallet); session.wallet_address = incomingWallet
SessionAttachWallet(k) ==
  LET r == req[k] IN
  /\ r.kind = "session" /\ r.pc = "attach"
  /\ sessions' = attachWallet(r.session.id, r.payload.walletAddress)
  /\ Set(k, [r EXCEPT !.session.wallet_address = r.payload.walletAddress,
                       !.ops.walletWrites = @ + 1, !.pc = "reads"])
  /\ NoInsert
  /\ UNCHANGED <<Config, messages>>

\* res.json({sessionId, walletAddress, locale, messageCount: messages.length,
\* userMessageCount, freeMessagesLeft: Math.max(0, LIMIT - userMessageCount), messages})
SessionResponse(r) ==
  [r EXCEPT !.pc = "done",
     !.res = Res(200, [sessionId |-> r.session.id,
                       walletAddress |-> r.session.wallet_address,
                       locale |-> Coalesce(r.session.locale, "en"),
                       messageCount |-> Len(r.messages),
                       userMessageCount |-> r.userMessageCount,
                       freeMessagesLeft |-> freeMessagesLeft(build, r.userMessageCount),
                       messages |-> r.messages])]

\* Promise.all([getMessages(session.id), getMessageCount(session.id)]): the two
\* queries are in flight together and the database runs them in either order;
\* the response follows the second one; the payload's wallet is not read again
SessionAfterRead(r) ==
  IF r.messagesRead /\ r.userMessageCount >= 0 THEN SessionResponse(r)
  ELSE [r EXCEPT !.payload.walletAddress = NULL]

\* the query of getMessages(session.id) is executed
SessionGetMessages(k) ==
  LET r == req[k] IN
  /\ r.kind = "session" /\ r.pc = "reads" /\ ~r.messagesRead
  /\ \E m \in getMessages(r.session.id) :
       Set(k, SessionAfterRead([r EXCEPT !.messages = m, !.messagesRead = TRUE]))
  /\ NoInsert
  /\ UNCHANGED <<Config, Store>>

\* the query of getMessageCount(session.id) is executed
SessionGetMessageCount(k) ==
  LET r == req[k] IN
  /\ r.kind = "session" /\ r.pc = "reads" /\ r.userMessageCount < 0
  /\ Set(k, SessionAfterRead([r EXCEPT !.userMessageCount = getMessageCount(r.session.id)]))
  /\ NoInsert
  /\ UNCHANGED <<Config, Store>>

\* ------------------------------------------------- /api/session/:id/messages
\* a GET /api/session/:id/messages arrives: getSession(req.params.id), which
\* throws (500), finds nothing (404) or finds the session
MessagesStart(k) ==
  /\ FreeSlot(k)
  /\ \E sid \in SessionIdInputs \ {0} :
       LET r == [IdleReq EXCEPT !.kind = "messages"]
           got == getSession(sid)
       IN  \/ DbMayFail /\ Set(k, [Catch(DbThrew(r)) EXCEPT !.res = Res(500, [error |-> TRUE])])
           \/ Set(k, IF got = NoSession
                     THEN [Catch(r) EXCEPT !.res = Res(404, [error |-> TRUE])]
                     ELSE [r EXCEPT !.session = got, !.pc = "getMessages"])
  /\ NoInsert
  /\ UNCHANGED <<Config, Store>>

\* const messages = await getMessages(session.id); res.json({sessionId, messages})
MessagesRespond(k) ==
  LET r == req[k] IN
  /\ r.kind = "messages" /\ r.pc = "getMessages"
  /\ \E m \in getMessages(r.session.id) :
       Set(k, [r EXCEPT !.pc = "done",
                 !.res = Res(200, [sessionId |-> r.session.id, messages |-> m])])
  /\ NoInsert
  /\ UNCHANGED <<Config, Store>>

\* ------------------------------------------------------------ /api/token/:mint
\* GET /api/token/:mint: info = await getTokenInfo(mint); a throw is answered
\* 400 'Invalid token mint or RPC failure'
TokenRequest(k) ==
  /\ FreeSlot(k)
  /\ \E m \in MintInputs :
       LET r == [IdleReq EXCEPT !.kind = "token"] IN
       IF ~ValidMint(m)
       THEN Set(k, Catch(r))
       ELSE \/ ChainMayHang /\ Set(k, Pending(r))
            \/ \E c \in ChainAnswers :
                 LET info == getTokenInfo(m, c) IN
                 IF info = NoInfo
                 THEN Set(k, Catch([r EXCEPT !.ops.rpc = @ + 1, !.chain = c]))
                 ELSE Set(k, [r EXCEPT !.pc = "done", !.ops.rpc = @ + 1, !.chain = c,
                                       !.res = Res(200, [token |-> info])])
  /\ NoInsert
  /\ UNCHANGED <<Config, Store>>

\* ------------------------------------------------- awaits of a request
\* the two queries that getTokenInfo starts together: Promise.all([
\* solana.getTokenSupply(mint), solana.getTokenLargestAccounts(mint)])
TopLevelQueries == {"getTokenSupply", "getTokenLargestAccounts"}

\* the two reads that POST /api/session starts together: Promise.all([
\* getMessages(session.id), getMessageCount(session.id)])
SessionReads == {"getMessages", "getMessageCount"}

\* a variant in which /api/chat starts the history read and the INSERT of the
\* user row together
InFlightChatOverlapped(r) ==
  CASE r.pc = "create" -> {"createSession"}
    [] r.pc = "gate" -> {"getMessageCount"}
    [] r.pc = "attach" -> {"attachWallet"}
    [] r.pc = "history" -> {"getRecentMessages", "storeMessage user"}
    [] r.pc = "storeUser" -> {"storeMessage user"}
    [] r.pc = "llm" -> {"completion"}
    [] r.pc = "storeAsst" -> {"storeMessage assistant"}
    [] r.pc = "count" -> {"getMessageCount"}
    [] r.pc = "getMessages" -> {"getMessages"}
    [] r.pc \in {"chain", "pending"} -> TopLevelQueries
    [] r.pc = "reads" -> (IF r.messagesRead THEN {} ELSE {"getMessages"})
                           \cup (IF r.userMessageCount >= 0 THEN {} ELSE {"getMessageCount"})
    [] OTHER -> {}

\* the calls that the request r has started and that have not answered yet:
\* what the handler awaits at r.pc
InFlight(r) ==
  CASE r.pc = "create" -> {"createSession"}
    [] r.pc = "gate" -> {"getMessageCount"}
    [] r.pc = "attach" -> {"attachWallet"}
    [] r.pc = "history" -> {"getRecentMessages"}
    [] r.pc = "storeUser" -> {"storeMessage user"}
    [] r.pc = "llm" -> {"completion"}
    [] r.pc = "storeAsst" -> {"storeMessage assistant"}
    [] r.pc = "count" -> {"getMessageCount"}
    [] r.pc = "getMessages" -> {"getMessages"}
    [] r.pc \in {"chain", "pending"} -> TopLevelQueries
    [] r.pc = "reads" -> (IF r.messagesRead THEN {} ELSE {"getMessages"})
                           \cup (IF r.userMessageCount >= 0 THEN {} ELSE {"getMessageCount"})
    [] OTHER -> {}

\* ------------------------------------------------------- common to handlers
\* a pool.query of a handler throws (the database is unreachable): the
\* handler's catch block answers, 500 for GET messages and 400 elsewhere
StorageFailure(k) ==
  LET r == req[k] IN
  /\ DbMayFail
  /\ r.pc \in {"create", "gate", "attach", "history", "storeUser",
               "storeAsst", "count", "reads", "getMessages"}
  /\ Set(k, IF r.kind = "messages"
            THEN [Catch(DbThrew(r)) EXCEPT !.res = Res(500, [error |-> TRUE])]
            ELSE Catch(DbThrew(r)))
  /\ NoInsert
  /\ UNCHANGED <<Config, Store>>

\* the store at the start: empty, or one walletless session with up to
\* MaxPrior chat turns behind it that were handled one after the other, which
\* the gate admits up to the limit
InitStore ==
  /\ build \in Builds
  /\ \/ sessions = <<>> /\ messages = <<>>
     \/ \E j \in 0..MaxPrior :
          /\ j <= FREE_LIMIT(build)
          /\ sessions = <<[wallet_address |-> NULL, locale |-> "en"]>>
          /\ messages = <<PriorLog(j)>>
  /\ lastInsert = <<0, 0>>
  /\ sent = NoSent
  /\ inserted = 0
  /\ req = [k \in Slots |-> IdleReq]

Init == scope = "gate" /\ InitStore

InitSeq == scope = "seq" /\ InitStore /\ sessions = <<>>

InitBind == scope = "bind" /\ InitStore

InitLocale == scope = "locale" /\ InitStore

\* the response of the last step has left; nothing else happens in between
Deliver ==
  /\ sent # NoSent
  /\ sent' = NoSent
  /\ UNCHANGED <<Config, Store, lastInsert, inserted, req>>

\* the steps of the three handlers that work on a session, and the token lookup
Turns(k) ==
    \/ ChatStart(k) \/ ChatCreateSession(k) \/ ChatGate(k)
    \/ ChatAttachWallet(k) \/ ChatHistory(k) \/ ChatStoreUser(k) \/ ChatCompletion(k)
    \/ ChatStoreAssistant(k) \/ ChatRespond(k)
    \/ AnalyzeStart(k) \/ AnalyzeGate(k) \/ AnalyzeAttachWallet(k) \/ AnalyzeTokenInfo(k)
    \/ AnalyzeCompletion(k) \/ AnalyzeStoreUser(k) \/ AnalyzeStoreAssistant(k)
    \/ AnalyzeRespond(k)
    \/ SessionStart(k) \/ SessionCreateSession(k) \/ SessionAttachWallet(k)
    \/ SessionGetMessages(k) \/ SessionGetMessageCount(k)
    \/ TokenRequest(k)

\* the message listing, and the database failing
Others(k) == MessagesStart(k) \/ MessagesRespond(k) \/ StorageFailure(k)

\* the steps of the two handlers that pass the gate
GatedTurns(k) ==
    \/ ChatStart(k) \/ ChatCreateSession(k) \/ ChatGate(k)
    \/ ChatAttachWallet(k) \/ ChatHistory(k) \/ ChatStoreUser(k) \/ ChatCompletion(k)
    \/ ChatStoreAssistant(k) \/ ChatRespond(k)
    \/ AnalyzeStart(k) \/ AnalyzeGate(k) \/ AnalyzeAttachWallet(k) \/ AnalyzeTokenInfo(k)
    \/ AnalyzeCompletion(k) \/ AnalyzeStoreUser(k) \/ AnalyzeStoreAssistant(k)
    \/ AnalyzeRespond(k)

\* a run in which only chat and analyze requests are made
NextBind == (\E k \in Slots : GatedTurns(k)) \/ Deliver

\* a run with every endpoint but /api/chat, and every failure
NextNoChat ==
  (\E k \in Slots :
      \/ AnalyzeStart(k) \/ AnalyzeGate(k) \/ AnalyzeAttachWallet(k) \/ AnalyzeTokenInfo(k)
      \/ AnalyzeCompletion(k) \/ AnalyzeStoreUser(k) \/ AnalyzeStoreAssistant(k)
      \/ AnalyzeRespond(k)
      \/ SessionStart(k) \/ SessionCreateSession(k) \/ SessionAttachWallet(k)
      \/ SessionGetMessages(k) \/ SessionGetMessageCount(k)
      \/ TokenRequest(k)
      \/ Others(k))
  \/ Deliver

\* a run that follows one session through the gate
Next == (\E k \in Slots : Turns(k)) \/ Deliver

\* a run with every endpoint and every failure
NextSeq == (\E k \in Slots : Turns(k) \/ Others(k)) \/ Deliver

\* a run that follows one session through the gate with requests that never
\* overlap: a request is handled only while every other slot is free
NextOneByOne ==
  (\E k \in Slots : (\A o \in Slots \ {k} : req[o].pc = "idle") /\ Turns(k)) \/ Deliver

Spec == Init /\ [][Next]_vars

SpecOneByOne == Init /\ [][NextOneByOne]_vars

SpecBind == InitBind /\ [][NextBind]_vars

SpecLocale == InitLocale /\ [][NextOneByOne]_vars

SpecNoChat == InitSeq /\ [][NextNoChat]_vars

SpecSeq == InitSeq /\ [][NextSeq]_vars

\* the event loop runs every continuation that is ready
SpecSeqFair == SpecSeq /\ WF_vars(NextSeq)

\* ================================================================ properties
\* the request in slot k takes this step
Steps(k) == req'[k] # req[k]

\* the response that this step of slot k sends has the status st
Answers(k, st) == sent'.slot = k /\ sent'.res.status = st

\* the handlers that pass the gate
Gated == {"chat", "analyze"}

\* the number of role = 'user' rows of a log
RECURSIVE UserRows(_)
UserRows(log) ==
  IF log = <<>> THEN 0
  ELSE (IF log[Len(log)].role = "user" THEN 1 ELSE 0) + UserRows(SubSeq(log, 1, Len(log) - 1))

\* C1: when a chat or analyze request reaches the gate of a session that holds
\* FREE_LIMIT or more user messages and no wallet, and the request supplies no
\* wallet, it is answered 403 requireWallet; the request has then written no
\* message and no wallet and has called neither the chain RPC nor the language
\* model, and the store is as it was.
C1_BlockedWithoutEffects ==
  [][\A k \in Slots :
       LET r == req[k] IN
       (/\ r.pc = "gate" /\ Steps(k)
        /\ getMessageCount(r.session.id) >= FREE_LIMIT(build)
        /\ ~Truthy(sessions[r.session.id].wallet_address)
        /\ ~Truthy(r.payload.walletAddress))
       => /\ Answers(k, 403) /\ sent'.res.requireWallet
          /\ sent'.kind \in Gated
          /\ sent'.ops = NoOps
          /\ Store' = Store]_vars

\* a chat request was answered 403 on a walletless session at or over the limit
C1_Witness ==
  /\ sent.kind = "chat" /\ sent.res.status = 403 /\ sent.res.requireWallet
  /\ getMessageCount(sent.sessionId) >= FREE_LIMIT(build)
  /\ ~Truthy(sessions[sent.sessionId].wallet_address)

\* C2 (as stated): the gate blocks a request only if the session holds
\* FREE_LIMIT or more user messages, no wallet is stored on the session and
\* none is supplied in the request.
C2_NeverBlocksWithStoredWallet ==
  [][\A k \in Slots :
       LET r == req[k] IN
       (r.pc = "gate" /\ Steps(k) /\ Answers(k, 403))
       => /\ getMessageCount(r.session.id) >= FREE_LIMIT(build)
          /\ ~Truthy(sessions[r.session.id].wallet_address)
          /\ ~Truthy(r.payload.walletAddress)]_vars

\* C2 (amended): the gate blocks a request if and only if the session holds
\* FREE_LIMIT or more user messages when the gate is evaluated, the session
\* row that the request read carries no wallet, and the request supplies
\* none; nothing else enters the decision.
C2_DecisionOfCountAndWallet ==
  [][\A k \in Slots :
       LET r == req[k] IN
       (r.pc = "gate" /\ Steps(k))
       => (Answers(k, 403)
             <=> /\ getMessageCount(r.session.id) >= FREE_LIMIT(build)
                 /\ ~Truthy(r.session.wallet_address)
                 /\ ~Truthy(r.payload.walletAddress))]_vars

\* a request passed the gate of a session at or over the limit because it
\* supplied a wallet
C2_Witness ==
  \E k \in Slots :
    /\ req[k].kind \in Gated /\ req[k].pc = "attach"
    /\ getMessageCount(req[k].session.id) >= FREE_LIMIT(build)
    /\ ~Truthy(sessions[req[k].session.id].wallet_address)

\* C3: a chat or analyze request that reaches the gate has written no message
\* and called no language model; no step after the gate answers 403; every
\* step at an INSERT of an admitted request writes its row, and the step after
\* the last one answers 200, whatever the count has become.
C3_GateOnlyBeforeTheWork ==
  [][\A k \in Slots :
       LET r == req[k]
           s == r.session.id
       IN  (r.kind \in Gated /\ Steps(k))
           => /\ r.pc = "gate" => r.ops = NoOps
              /\ r.pc # "gate" => ~Answers(k, 403)
              /\ r.pc \in {"storeUser", "storeAsst"}
                   => /\ Len(messages'[s]) = Len(messages[s]) + 1
                      /\ sent' = NoSent
              /\ r.pc = "count" => Answers(k, 200)]_vars

\* a chat request admitted below the limit stores its reply on a walletless
\* session whose count has reached the limit
C3_Witness ==
  /\ sent.kind = "chat" /\ sent.res.status = 200 /\ sent.ops.msgWrites = 2
  /\ sent.ops.walletWrites = 0
  /\ getMessageCount(sent.sessionId) = FREE_LIMIT(build)
  /\ ~Truthy(sessions[sent.sessionId].wallet_address)

\* C4: in every state the count that getMessageCount reads is the number of
\* role = 'user' rows of the session's log, and no step lowers it.
C4_CountOfUserRows ==
  [][\A s \in 1..Len(sessions) :
       /\ getMessageCount(s) = UserRows(messages[s])
       /\ getMessageCount(s)' = UserRows(messages'[s])
       /\ getMessageCount(s)' >= getMessageCount(s)]_vars

\* a request in flight has written its user row into a log that also holds
\* assistant rows
C4_Witness ==
  \E k \in Slots :
    LET log == messages[req[k].session.id] IN
    /\ req[k].pc = "llm" /\ req[k].ops.msgWrites = 1
    /\ Len(log) > 2 /\ log[Len(log)].role = "user"
    /\ getMessageCount(req[k].session.id) < Len(log)

\* C5: a 200 response of /api/session, /api/chat or /api/token/analyze carries
\* freeMessagesLeft = max(0, FREE_LIMIT - n), never negative, where n is the
\* count stored when the response is computed (for /api/session the
\* userMessageCount it read, which the stored count has reached).
C5_FreeMessagesLeft ==
  (sent.res.status = 200 /\ sent.kind \in Gated \cup {"session"})
  => LET n == IF sent.kind = "session" THEN sent.res.userMessageCount
              ELSE getMessageCount(sent.sessionId)
         d == FREE_LIMIT(build) - n
     IN  /\ sent.res.freeMessagesLeft = (IF d > 0 THEN d ELSE 0)
         /\ sent.res.freeMessagesLeft >= 0
         /\ n \in 0..getMessageCount(sent.sessionId)

\* a 200 response for a session whose count exceeds the limit
C5_Witness ==
  /\ sent.res.status = 200 /\ sent.kind \in Gated \cup {"session"}
  /\ sent.res.freeMessagesLeft = 0
  /\ (IF sent.kind = "session" THEN sent.res.userMessageCount
      ELSE getMessageCount(sent.sessionId)) > FREE_LIMIT(build)

\* C6 (as stated): the limit is the README's 4: a request without any wallet
\* is blocked at the gate exactly when the session holds 4 or more user
\* messages, and every 200 response reports max(0, 4 - count).
C6_LimitIsFour ==
  [][/\ \A k \in Slots :
          LET r == req[k] IN
          (/\ r.pc = "gate" /\ Steps(k)
           /\ ~Truthy(r.session.wallet_address) /\ ~Truthy(r.payload.walletAddress))
          => (Answers(k, 403) <=> getMessageCount(r.session.id) >= ReadmeFreeLimit)
     /\ (sent'.res.status = 200 /\ sent'.kind \in Gated)
          => sent'.res.freeMessagesLeft
               = Max(0, ReadmeFreeLimit - UserRows(messages'[sent'.sessionId]))
     /\ (sent'.res.status = 200 /\ sent'.kind = "session")
          => sent'.res.freeMessagesLeft
               = Max(0, ReadmeFreeLimit - sent'.res.userMessageCount)]_vars

\* the log holds j complete turns: a user row, then an assistant row, j times
CompleteTurns(log, j) ==
  /\ Len(log) = 2 * j
  /\ \A i \in 1..Len(log) : log[i].role = (IF i % 2 = 1 THEN "user" ELSE "assistant")

\* slot k handles the only request in flight
Alone(k) == \A o \in Slots \ {k} : req[o].pc = "idle"

\* C7: in the build whose limit is 4, with one request at a time on a session
\* whose log holds j complete turns: a chat request without wallet is admitted
\* for j < 4 and answered 403 requireWallet for j = 4; once a wallet is stored
\* the chat request is admitted for j = 4; and the chat turn that completes
\* turn j <= 4 answers 200 with freeMessagesLeft = 4 - j (3, 2, 1, 0).
C7_FourFreeTurns ==
  [][build = "unnamed" =>
       \A k \in Slots :
         LET r == req[k]
             s == r.session.id
             j == Len(messages[s]) \div 2
             stored == sessions[s].wallet_address
         IN  (/\ r.kind = "chat" /\ Steps(k) /\ Alone(k)
              /\ r.pc \in {"gate", "count"}
              /\ CompleteTurns(messages[s], j)
              /\ r.session.wallet_address = stored)
             => /\ (r.pc = "gate" /\ j < 4) => sent' = NoSent
                /\ (r.pc = "gate" /\ j = 4 /\ ~Truthy(stored)
                      /\ ~Truthy(r.payload.walletAddress))
                     => Answers(k, 403) /\ sent'.res.requireWallet
                /\ (r.pc = "gate" /\ j = 4 /\ Truthy(stored)) => sent' = NoSent
                /\ (r.pc = "count" /\ j \in 1..4)
                     => Answers(k, 200) /\ sent'.res.freeMessagesLeft = 4 - j
                /\ (r.pc = "count" /\ j = 5 /\ Truthy(stored)) => Answers(k, 200)]_vars

\* the fifth turn has succeeded on a session that got its wallet after four
\* free turns
C7_Witness ==
  /\ build = "unnamed" /\ inserted = 2
  /\ sent.kind = "chat" /\ sent.res.status = 200 /\ sent.res.freeMessagesLeft = 0
  /\ CompleteTurns(messages[sent.sessionId], 5)
  /\ Truthy(sessions[sent.sessionId].wallet_address)
  /\ sent.ops.walletWrites = 0

\* C8: a step that changes the wallet of a session at or over the limit leaves
\* every log, hence every count, as it was; a chat or analyze request reads
\* the wallet that is stored when it arrives; and a request that read a wallet
\* passes the gate whatever the count, also when it supplies none.
C8_AttachUnblocks ==
  [][/\ \A s \in 1..Len(sessions) :
          (/\ sessions'[s].wallet_address # sessions[s].wallet_address
           /\ getMessageCount(s) >= FREE_LIMIT(build))
          => /\ messages' = messages
             /\ getMessageCount(s)' = getMessageCount(s)
             /\ Truthy(sessions'[s].wallet_address)
     /\ \A k \in Slots :
          LET r == req[k] IN
          /\ (r.pc = "idle" /\ req'[k].pc = "gate")
               => req'[k].session.wallet_address
                    = sessions'[req'[k].session.id].wallet_address
          /\ (r.pc = "gate" /\ Steps(k) /\ Truthy(r.session.wallet_address))
               => /\ sent' = NoSent
                  /\ req'[k].pc \in {"history", "chain"}
                  /\ UNCHANGED Store]_vars

\* a request that carries no wallet has passed the gate of a session that was
\* given its wallet at four user messages, the limit of its build
C8_Witness ==
  \E k \in Slots :
    LET r == req[k] IN
    /\ build = "unnamed" /\ inserted = 0
    /\ r.kind \in Gated /\ r.pc \in {"history", "chain"}
    /\ r.payload.walletAddress = NULL /\ r.ops.walletWrites = 0
    /\ getMessageCount(r.session.id) >= FREE_LIMIT(build)
    /\ Truthy(sessions[r.session.id].wallet_address)

\* ascending creation order
Ascending(rows) == \A i \in 1..(Len(rows) - 1) : rows[i].created_at <= rows[i + 1].created_at

\* C9 (as stated): whatever getRecentMessages(id, 8) returns has at most 8
\* rows, in ascending creation order, and is the last min(8, n) rows of
\* whatever getMessages(id) returns.
C9_RecentIsSuffix ==
  \A s \in 1..Len(sessions) :
    \A recent \in getRecentMessages(s, HistoryLimit) :
      \A all \in getMessages(s) :
        LET n == Len(all)
            m == IF n < 8 THEN n ELSE 8
        IN  /\ Len(recent) <= 8
            /\ Ascending(recent)
            /\ recent = SubSeq(all, n - m + 1, n)

\* C10: an analyze request whose completion came back empty, blank or missing
\* has stored no message when it computes its response, and its 200 response
\* carries the token snapshot although the request wrote nothing.
C10_EmptyAnalysisStoresNothing ==
  /\ \A k \in Slots :
       LET r == req[k] IN
       (r.kind = "analyze" /\ r.pc \in {"storeUser", "storeAsst", "count"})
       => /\ r.info # NoInfo /\ r.ops.rpc = 1 /\ r.ops.llm = 1
          /\ ~Truthy(r.reply) => (r.pc = "count" /\ r.ops.msgWrites = 0)
  /\ (sent.kind = "analyze" /\ sent.res.status = 200)
       => /\ sent.res.token # NoInfo
          /\ ~Truthy(sent.res.message) => sent.ops.msgWrites = 0
          /\ Truthy(sent.res.message) => sent.ops.msgWrites = 2

\* an analysis with a blank reply was answered 200 with its snapshot and no
\* message written
C10_Witness ==
  /\ sent.kind = "analyze" /\ sent.res.status = 200
  /\ sent.res.message = "" /\ sent.res.token = TokenInfo("mintA", <<>>)
  /\ sent.ops.msgWrites = 0 /\ sent.ops.rpc = 1 /\ sent.ops.llm = 1

\* C11 (as stated): whatever its outcome, an analyze request that has been
\* answered has appended no row at all or its user row and its assistant row;
\* it never leaves the user row alone.
C11_PairOrNothing ==
  sent.kind = "analyze" => sent.ops.msgWrites \in {0, 2}

\* the last row of a log is a user row with this content
EndsWithUser(log, content) ==
  log # <<>> /\ log[Len(log)].role = "user" /\ log[Len(log)].content = content

\* C12: the step of a chat request that writes the user row comes before its
\* completion is requested and raises the count by one; when the completion
\* throws, the request is answered 400 with an error, the store stays as it
\* is, and the user row is the one row the request has written.
C12_UserRowSurvivesModelFailure ==
  [][\A k \in Slots :
       LET r == req[k]
           s == r.session.id
       IN  (r.kind = "chat" /\ Steps(k))
           => /\ r.pc = "storeUser"
                   => /\ r.ops.llm = 0 /\ sent' = NoSent /\ req'[k].pc = "llm"
                      /\ UserRows(messages'[s]) = UserRows(messages[s]) + 1
                      /\ EndsWithUser(messages'[s], r.payload.prompt)
              /\ r.pc = "llm"
                   => /\ r.ops.msgWrites = 1 /\ r.ops.llm = 0
                      /\ sent' # NoSent
                           => /\ Answers(k, 400) /\ sent'.res.error
                              /\ sent'.ops.msgWrites = 1 /\ sent'.ops.llm = 1
                              /\ Store' = Store]_vars

\* a chat request whose completion threw was answered 400; its user row is
\* the newest row of the log
C12_Witness ==
  /\ sent.kind = "chat" /\ sent.res.status = 400 /\ sent.res.error
  /\ sent.ops.llm = 1 /\ sent.ops.msgWrites = 1
  /\ EndsWithUser(messages[sent.sessionId], "hi")
  /\ getMessageCount(sent.sessionId) * 2 > Len(messages[sent.sessionId])

\* C13: with two requests in flight at a time, a session without wallet never
\* holds more than FREE_LIMIT + 1 user messages.
C13_AtMostOneOverTheLimit ==
  \A s \in 1..Len(sessions) :
    ~Truthy(sessions[s].wallet_address) => getMessageCount(s) <= FREE_LIMIT(build) + 1

\* two overlapping requests were both admitted at FREE_LIMIT - 1 and have both
\* written their user row: the walletless session holds FREE_LIMIT + 1
C13_Witness ==
  \E s \in 1..Len(sessions) :
    /\ ~Truthy(sessions[s].wallet_address)
    /\ getMessageCount(s) = FREE_LIMIT(build) + 1
    /\ inserted = 2
    /\ \A k \in Slots :
         /\ req[k].kind \in Gated /\ req[k].session.id = s
         /\ req[k].ops.msgWrites = 1 /\ req[k].ops.walletWrites = 0

\* the handlers that resolve or create a session
OnSession == {"session", "chat", "analyze"}

\* C14 (as stated): a POST /api/session, /api/chat or /api/token/analyze
\* without session id, or with a well-formed id that no session carries, is
\* never answered 404: once past the lookup it works on a stored session whose
\* id the server generated, and the id it answers with is that session's.
C14_UnknownIdCreatesSession ==
  /\ \A k \in Slots :
       (req[k].kind \in OnSession /\ req[k].pc \notin {"idle", "create"})
       => req[k].session.id \in 1..Len(sessions)
  /\ sent.kind \in OnSession
       => /\ sent.res.status # 404
          /\ sent.res.status = 200 => sent.res.sessionId \in 1..Len(sessions)

\* C15 (as stated): when the supply and the largest-accounts queries of a
\* GET /api/token/:mint answer, the request is answered 200 with the first
\* five largest accounts, also when the owner lookup of one of them throws:
\* that holder has owner null, the others the owner their lookup resolved.
C15_HolderLookupFailsSoft ==
  (sent.kind = "token" /\ sent.chain.top = "ok")
  => LET l == sent.chain.lookups
         n == IF Len(l) < 5 THEN Len(l) ELSE 5
         h == sent.res.token.largestHolders
     IN  /\ sent.res.status = 200
         /\ Len(h) = n
         /\ \A i \in 1..n : h[i].owner = (IF l[i] = "throws" THEN NULL ELSE l[i])

\* C16 (as stated): a request during which a query threw because the database
\* was unreachable is answered 500, never 404 or 400, whichever of POST
\* /api/session, GET /api/session/:id/messages, POST /api/chat and POST
\* /api/token/analyze it is.
C16_StorageFailureIs500 ==
  (sent.kind \in {"session", "messages", "chat", "analyze"} /\ sent.ops.dbErrors > 0)
  => sent.res.status = 500

\* C17 (as stated): every request that is being handled is eventually
\* answered, also when a chain RPC call never answers.
C17_EveryRequestAnswered ==
  \A k \in Slots : (req[k].pc # "idle") ~> (sent.slot = k)

\* the step answers slot k after a storage call of its request has thrown
DbFailed(k) == sent'.slot = k /\ sent'.ops.dbErrors > 0

\* C18: a POST /api/session that has resolved its session goes on to write the
\* wallet exactly when its payload carries a non-empty address that differs
\* from the one of the session row, and that write, unless storage fails,
\* stores the payload's address in place of the stored one; a chat or analyze request changes the
\* sessions table only by creating its session or by the wallet write it
\* makes for a session row that had none, and with a wallet in its session
\* row it passes from the gate to its work without a wallet write, whatever
\* address its payload carries.
C18_AsymmetricWalletBinding ==
  [][\A k \in Slots :
       LET r == req[k]
           q == req'[k]
           s == r.session.id
       IN  /\ (r.kind = "session" /\ Steps(k))
                => /\ (r.pc = "attach")
                        => /\ sessions[s].wallet_address # r.payload.walletAddress
                           /\ Truthy(r.payload.walletAddress)
                           /\ \/ DbFailed(k)
                              \/ /\ sessions'[s].wallet_address
                                      = r.payload.walletAddress
                                 /\ q.ops.walletWrites = 1
                   /\ r.pc = "reads" => sessions' = sessions
           /\ (q.kind = "session" /\ Steps(k) /\ r.pc \in {"idle", "create"}
                /\ q.pc \in {"attach", "reads"})
                => (q.pc = "attach"
                      <=> /\ Truthy(q.payload.walletAddress)
                          /\ q.payload.walletAddress
                               # sessions'[q.session.id].wallet_address)
           /\ (r.kind \in Gated /\ Steps(k))
                => /\ sessions' # sessions
                        => r.pc \in {"create", "attach"}
                   /\ r.pc = "attach" => ~Truthy(r.session.wallet_address)
                   /\ (r.pc = "gate" /\ Truthy(r.session.wallet_address))
                        => /\ q.pc # "attach"
                           /\ q.ops.walletWrites = 0]_vars

\* a chat or analyze request whose payload carries another address than the
\* one stored has passed the gate and goes on without writing the wallet
C18_Witness ==
  \E k \in Slots :
    LET r == req[k] IN
    /\ r.kind \in Gated /\ r.pc \in {"history", "chain"}
    /\ Truthy(r.payload.walletAddress)
    /\ Truthy(sessions[r.session.id].wallet_address)
    /\ sessions[r.session.id].wallet_address # r.payload.walletAddress
    /\ r.ops.walletWrites = 0

\* C19: a step that attaches a wallet to a session leaves the table sessions
\* in a state that attaching the same address to the same session again does
\* not change; it sets the wallet of that session, keeps its locale, and
\* changes no other row; an attach whose storage call throws changes nothing.
C19_AttachWalletIdempotent ==
  [][\A k \in Slots :
       LET r == req[k]
           s == r.session.id
           w == r.payload.walletAddress
       IN  (r.pc = "attach" /\ Steps(k))
           => IF DbFailed(k) THEN sessions' = sessions
              ELSE /\ attachWallet(s, w)' = sessions'
                   /\ sessions'[s].wallet_address = w
                   /\ sessions'[s].locale = sessions[s].locale
                   /\ Len(sessions') = Len(sessions)
                   /\ \A i \in 1..Len(sessions) : i # s => sessions'[i] = sessions[i]]_vars

\* a request has attached a wallet to one of two sessions; the other session
\* has another wallet or none
C19_Witness ==
  \E k \in Slots :
    LET r == req[k]
        s == r.session.id
    IN  /\ r.ops.walletWrites = 1 /\ r.pc # "idle"
        /\ Len(sessions) >= 2
        /\ Truthy(sessions[s].wallet_address)
        /\ \E i \in 1..Len(sessions) :
             i # s /\ sessions[i].wallet_address # sessions[s].wallet_address

\* C20 as stated: a chat request appends its user message before it fetches
\* its history: when it is about to fetch the history it has written its user
\* row, and when it is about to write that row it has fetched nothing yet.
C20_UserRowBeforeHistory ==
  \A k \in Slots :
    req[k].kind = "chat"
      => /\ req[k].pc = "history" => req[k].ops.msgWrites = 1
         /\ req[k].pc = "storeUser" => req[k].history = <<>>

\* C20: an admitted chat request writes the wallet, if at all, before anything
\* else; it then fetches its history while it has written no message, so the
\* history is a reading of the log without the new user row; then it appends
\* the user row, keeping the history it fetched; then it asks the model once,
\* with the system prompt, the fetched history and the new prompt in this
\* order; then it appends the assistant reply as its second row.
C20_HistoryBeforeUserRow ==
  [][\A k \in Slots :
       LET r == req[k]
           q == req'[k]
           s == r.session.id
       IN  (r.kind = "chat" /\ Steps(k))
           => /\ r.pc = "attach"
                   => /\ r.ops.msgWrites = 0 /\ r.ops.llm = 0 /\ r.history = <<>>
                      /\ q.pc = "history" /\ q.ops.walletWrites = 1
                      /\ messages' = messages
              /\ r.pc = "history"
                   => /\ r.ops.msgWrites = 0 /\ r.ops.llm = 0
                      /\ q.pc = "storeUser" /\ messages' = messages
                      /\ sessions' = sessions
                      /\ q.history \in getRecentMessages(s, HistoryLimit)
              /\ r.pc = "storeUser"
                   => /\ r.ops.llm = 0 /\ q.pc = "llm"
                      /\ q.history = r.history /\ q.ops.msgWrites = 1
                      /\ Len(messages'[s]) = Len(messages[s]) + 1
                      /\ EndsWithUser(messages'[s], r.payload.prompt)
              /\ r.pc = "llm"
                   => /\ r.ops.msgWrites = 1 /\ r.ops.llm = 0
                      /\ Len(ChatMessages(r)) = Len(r.history) + 2
                      /\ ChatMessages(r)[1].role = "system"
                      /\ \A i \in 1..Len(r.history) :
                           /\ ChatMessages(r)[i + 1].role = r.history[i].role
                           /\ ChatMessages(r)[i + 1].content = r.history[i].content
                      /\ ChatMessages(r)[Len(r.history) + 2]
                           = [role |-> "user", content |-> r.payload.prompt]
                      /\ messages' = messages
              /\ r.pc = "storeAsst"
                   => /\ r.ops.llm = 1 /\ r.ops.msgWrites = 1
                      /\ q.ops.msgWrites = 2
                      /\ Len(messages'[s]) = Len(messages[s]) + 1
                      /\ messages'[s][Len(messages'[s])].role = "assistant"]_vars

\* a chat request is about to ask the model: it fetched a history of earlier
\* rows, then wrote its user row, which is the newest row of the log and no
\* part of that history
C20_Witness ==
  \E k \in Slots :
    LET r == req[k]
        log == messages[r.session.id]
    IN  /\ r.kind = "chat" /\ r.pc = "llm" /\ r.ops.msgWrites = 1
        /\ r.history # <<>>
        /\ Len(log) = Len(r.history) + 1
        /\ EndsWithUser(log, r.payload.prompt)
        /\ \A i \in 1..Len(r.history) : r.history[i].id # log[Len(log)].id

\* C21: a chat request whose completion was answered holds a reply that is a
\* string, the empty one when the content is missing or blank; its next step
\* appends one assistant row with that reply to the log of its session, as
\* the second row the request writes; a chat request answered 200 has written
\* two rows and asked the model once.
C21_EmptyChatReplyIsStored ==
  [][\A k \in Slots :
       LET r == req[k]
           q == req'[k]
           s == r.session.id
       IN  (r.kind = "chat" /\ Steps(k))
           => /\ (r.pc = "llm" /\ q.pc = "storeAsst")
                   => q.reply \in {trim(raw) : raw \in RawReplies \ {NULL}} \cup {""}
              /\ r.pc = "storeAsst"
                   => /\ r.reply # NULL
                      /\ messages'[s]
                           = Append(messages[s], messages'[s][Len(messages'[s])])
                      /\ messages'[s][Len(messages'[s])].role = "assistant"
                      /\ messages'[s][Len(messages'[s])].content = r.reply
                      /\ q.ops.msgWrites = 2 /\ q.pc = "count"
              /\ Answers(k, 200)
                   => /\ sent'.ops.msgWrites = 2 /\ sent'.ops.llm = 1
                      /\ sent'.res.message = r.reply]_vars

\* a chat request whose completion had no content was answered 200 with the
\* empty message; the empty assistant row follows the user row in the log
C21_Witness ==
  LET log == messages[sent.sessionId] IN
  /\ sent.kind = "chat" /\ sent.res.status = 200 /\ sent.res.message = ""
  /\ sent.ops.msgWrites = 2
  /\ Len(log) >= 2
  /\ log[Len(log)].role = "assistant" /\ log[Len(log)].content = ""
  /\ log[Len(log) - 1].role = "user" /\ log[Len(log) - 1].content = "hi"

\* C22: a token snapshot that is returned lists the first min(5, n) of the n
\* accounts of the chain's largest-holder list, in the order of that list,
\* each with its amount in the list, the decimals of the supply and the owner
\* its lookup resolved; it is returned only when the supply query, the list
\* query and the lookup of each of these accounts have answered.
C22_SnapshotOfFirstFive ==
  (sent.kind = "token" /\ sent.res.status = 200)
  => LET c == sent.chain
         n == Len(c.amounts)
         h == sent.res.token.largestHolders
     IN  /\ c.top = "ok"
         /\ Len(h) = (IF n < 5 THEN n ELSE 5)
         /\ \A i \in 1..Len(h) :
              /\ h[i].address = i
              /\ h[i].amount = c.amounts[i]
              /\ h[i].decimals = c.decimals
              /\ c.lookups[i] # "throws" /\ h[i].owner = c.lookups[i]

\* a snapshot was returned for a list of six accounts with different amounts:
\* it holds the five largest
C22_Witness ==
  /\ sent.kind = "token" /\ sent.res.status = 200
  /\ Len(sent.chain.amounts) = 6
  /\ sent.chain.amounts[1] > sent.chain.amounts[2]
  /\ Len(sent.res.token.largestHolders) = 5
  /\ sent.res.token.largestHolders[5].amount = sent.chain.amounts[5]

C24_LogsAppendOnly ==
  [][/\ Len(messages') >= Len(messages)
     /\ \A s \in 1..Len(messages) :
          /\ Len(messages'[s]) >= Len(messages[s])
          /\ SubSeq(messages'[s], 1, Len(messages[s])) = messages[s]]_vars

\* two requests have each appended a row to a log that held two turns before
C24_Witness ==
  \E s \in 1..Len(messages) :
    /\ inserted = 2
    /\ Len(messages[s]) = 6
    /\ \A k \in Slots : req[k].session.id = s /\ req[k].ops.msgWrites = 1

\* C25 (as stated): whatever getMessages(id) returns is the log of the session
\* in the order in which its rows were inserted, also when rows carry the
\* same created_at.
C25_ListInInsertionOrder ==
  \A s \in 1..Len(sessions) :
    \A all \in getMessages(s) : all = messages[s]

\* a payload that the claim calls malformed for the endpoint `kind`
Malformed(kind, p) ==
  \/ p.sessionId < 0
  \/ p.locale \notin {"en", "zh", NULL}
  \/ kind = "chat" /\ p.prompt \in {NULL, ""}
  \/ kind = "analyze" /\ p.mint \in {NULL, ""}

\* C26: a POST /api/session, /api/chat or /api/token/analyze that arrives with
\* a malformed payload is answered 400 in the step of its arrival, with both
\* tables as they were and without any write, chain call, completion or
\* storage error on its account; a request that goes on past its arrival, or
\* whose arrival changes a table, carries a payload that is not malformed.
C26_MalformedRejectedUntouched ==
  [][\A k \in Slots :
       req[k].pc = "idle"
       => /\ (sent'.slot = k /\ sent'.kind \in OnSession
               /\ Malformed(sent'.kind, sent'.payload))
                => /\ sent'.res.status = 400 /\ sent'.res.error
                   /\ sent'.ops = NoOps
                   /\ Store' = Store /\ inserted' = inserted
          /\ (req'[k].pc # "idle" /\ req'[k].kind \in OnSession)
                => ~Malformed(req'[k].kind, req'[k].payload)
          /\ (Store' # Store /\ req'[k].kind \in OnSession)
                => req'[k].pc # "idle"]_vars

\* a chat request with an empty prompt was answered 400 while the store holds
\* a session; nothing was done for it
C26_Witness ==
  /\ sent.kind = "chat" /\ sent.res.status = 400
  /\ sent.payload.prompt = "" /\ sent.ops = NoOps
  /\ sessions # <<>>

\* C27: when requests never overlap, a session without a stored wallet never
\* holds more than FREE_LIMIT user messages, whatever chat and analyze
\* requests are made on it and whichever of their completions and chain
\* calls fail.
C27_NeverOverTheLimitOneByOne ==
  \A s \in 1..Len(sessions) :
    ~Truthy(sessions[s].wallet_address) => getMessageCount(s) <= FREE_LIMIT(build)

\* a walletless session has reached FREE_LIMIT user messages by a request of
\* this run, and the request that followed was blocked
C27_Witness ==
  /\ sent.kind \in Gated /\ sent.res.status = 403 /\ sent.res.requireWallet
  /\ inserted >= 1
  /\ ~Truthy(sessions[sent.sessionId].wallet_address)
  /\ getMessageCount(sent.sessionId) = FREE_LIMIT(build)

\* C28 (as stated): in a run whose only requests are chat and analyze
\* requests, so that every bound wallet was bound through one of them, no
\* step changes the wallet of a session that has one, whatever the request
\* making the step had read of the session before.
C28_BoundWalletKeptByChatAndAnalyze ==
  [][\A s \in 1..Len(sessions) :
       Truthy(sessions[s].wallet_address)
       => sessions'[s].wallet_address = sessions[s].wallet_address]_vars

\* C29: when a chat request writes its user row, the history it holds has at
\* most 8 rows, all different and all rows of its session's log as it is
\* before that write, and the request keeps this history; when it then asks
\* the model, the array it passes is the system prompt, then one element per
\* row of that history, then the prompt of the request as the last element,
\* which is the only element that does not come from an earlier row.
C29_PromptOnceAfterEarlierRows ==
  [][\A k \in Slots :
       LET r == req[k]
           s == r.session.id
           h == r.history
           m == ChatMessages(r)
       IN  (r.kind = "chat" /\ Steps(k))
           => /\ r.pc = "storeUser"
                   => /\ Len(h) <= 8
                      /\ \A i \in 1..Len(h) :
                           /\ h[i].id \in 1..Len(messages[s])
                           /\ h[i] = messages[s][h[i].id]
                           /\ \A j \in 1..Len(h) : h[i].id = h[j].id => i = j
                      /\ messages'[s][Len(messages'[s])].id = Len(messages[s]) + 1
                      /\ req'[k].history = h
              /\ r.pc = "llm"
                   => /\ Len(m) = Len(h) + 2 /\ Len(m) <= 10
                      /\ m[1].role = "system"
                      /\ m[Len(m)] = [role |-> "user", content |-> r.payload.prompt]
                      /\ \A i \in 1..Len(h) :
                           /\ m[i + 1] = [role |-> h[i].role, content |-> h[i].content]
                           /\ \E j \in 1..(Len(messages[s]) - 1) : messages[s][j] = h[i]]_vars

\* a chat request is about to ask the model with a history of 8 rows, the
\* newest of them written by the other request in flight; its own user row is
\* the tenth row of the log
C29_Witness ==
  \E k \in Slots :
    LET r == req[k]
        log == messages[r.session.id]
    IN  /\ r.kind = "chat" /\ r.pc = "llm" /\ r.ops.msgWrites = 1
        /\ Len(log) = 10 /\ Len(r.history) = 8
        /\ r.history[8].id = 9
        /\ \E o \in Slots \ {k} : req[o].ops.msgWrites = 1

\* C30: a session that has a wallet has one after every step; a row of the
\* table sessions changes only by the wallet write of a request whose payload
\* carries a non-empty address, which becomes the stored one; a chat or
\* analyze request reads at its arrival the wallet that is stored, and the
\* gate blocks only a request that read none.
C30_WalletNeverUnbound ==
  [][/\ \A s \in 1..Len(sessions) :
          /\ Truthy(sessions[s].wallet_address) => Truthy(sessions'[s].wallet_address)
          /\ sessions'[s] # sessions[s]
               => \E k \in Slots :
                    /\ req[k].pc = "attach" /\ req[k].session.id = s
                    /\ Truthy(req[k].payload.walletAddress)
                    /\ sessions'[s].wallet_address = req[k].payload.walletAddress
     /\ \A k \in Slots :
          /\ (req[k].pc = "idle" /\ req'[k].kind \in Gated /\ req'[k].pc = "gate"
               /\ Truthy(sessions'[req'[k].session.id].wallet_address))
               => Truthy(req'[k].session.wallet_address)
          /\ (req[k].kind \in Gated /\ Answers(k, 403))
               => ~Truthy(req[k].session.wallet_address)]_vars

\* a POST /api/session with an empty walletAddress has resolved a session that
\* has a wallet and goes on to its reads without a wallet write
C30_Witness ==
  \E k \in Slots :
    LET r == req[k] IN
    /\ r.kind = "session" /\ r.pc = "reads"
    /\ r.payload.walletAddress = "" /\ r.ops.walletWrites = 0
    /\ Truthy(sessions[r.session.id].wallet_address)
    /\ getMessageCount(r.session.id) >= FREE_LIMIT(build)

\* C31 (as stated): in a run without chat requests, where no chat turn can
\* have failed, every session holds at most as many assistant rows as user
\* rows, and as many of one as of the other whenever none of its requests is
\* in flight.
C31_AssistantRowsMatchUserRows ==
  \A s \in 1..Len(sessions) :
    LET users == UserRows(messages[s])
        assistants == Len(messages[s]) - users
    IN  /\ assistants <= users
        /\ (\A k \in Slots : req[k].pc = "idle" \/ req[k].session.id # s)
             => assistants = users

\* C32 (as stated): in every POST /api/session response, messageCount is the
\* length of messages[] and userMessageCount is the number of role=user entries
\* of messages[] of that response, whatever other requests write meanwhile.
C32_SessionCountsMatchList ==
  (sent.kind = "session" /\ sent.res.status = 200)
    => /\ sent.res.messageCount = Len(sent.res.messages)
       /\ sent.res.userMessageCount = UserRows(sent.res.messages)

\* C33: no step changes the locale of a stored session; a session that a
\* request creates gets the locale of that request, 'en' when it carries none;
\* and the system instruction of a chat or analyze turn is built from the
\* stored locale of its session, whatever locale the request carries.
C33_LocaleFixedAtCreation ==
  [][/\ Len(sessions') >= Len(sessions)
     /\ \A s \in 1..Len(sessions) : sessions'[s].locale = sessions[s].locale
     /\ Len(sessions') > Len(sessions)
          => \E k \in Slots :
               /\ req'[k].session.id = Len(sessions')
               /\ sessions'[Len(sessions')].locale = Coalesce(req'[k].payload.locale, "en")
     /\ \A k \in Slots :
          LET r == req'[k]
              system == [role |-> "system",
                         content |-> buildSystemPrompt(
                                       Coalesce(sessions'[r.session.id].locale, "en"))]
          IN  /\ (r.kind = "chat" /\ r.pc = "llm") => ChatMessages(r)[1] = system
              /\ (r.kind = "analyze" /\ r.pc = "llm") => AnalyzeMessages(r)[1] = system]_vars

\* a chat request that carries locale 'zh' is about to call the model on a
\* session stored with locale 'en', and its system instruction is the English one
C33_Witness ==
  \E k \in Slots :
    LET r == req[k] IN
    /\ r.kind = "chat" /\ r.pc = "llm" /\ r.payload.locale = "zh"
    /\ sessions[r.session.id].locale = "en"
    /\ ChatMessages(r)[1].content = buildSystemPrompt("en")

====
